---- MODULE Spec2Model ----
(***************************************************************************)
(* Verification model of the problem-validation service:                   *)
(*   - SentimentAnalyzer.analyze_problem_validation (the scoring pipeline) *)
(*   - TaskWorker.process_task / process_task_with_retry                   *)
(*   - the API gateway's request registry (active_validations) with        *)
(*     validate_problem, process_validation_task, get_validation_status    *)
(*                                                                         *)
(* Numbers that are floats in the program are exact rationals <<n, d>>     *)
(* here (d > 0); the two scores, which the program rounds to 2 decimals,   *)
(* are integers counting hundredths.                                       *)
(***************************************************************************)
EXTENDS Integers, Sequences, FiniteSets, TLC

VARIABLES
    posts,            \* analyzer: the batch handed to analyze_problem_validation
    report,           \* analyzer: what the call produced (NoReport before the call)
    classifier_calls, \* analyzer: calls of self.sentiment_pipeline made by the call
    kept,             \* analyzer: the sentiments the instance carries between calls
    call_log,         \* history: per call, the posts given, the posts after, the result
    w_call,           \* worker: the method invoked on the TaskWorker
    w_message,        \* worker: its message argument
    w_plan,           \* worker: what the k-th run of the collect+analyze pipeline does
    w_pc,             \* worker: "running", "returned" or "raised" ("idle": no call)
    attempt,          \* worker: local variable of process_task_with_retry
    collect_calls,    \* worker: calls of reddit_collector.collect_posts
    analyze_calls,    \* worker: calls of sentiment_analyzer.analyze_problem_validation
    store_calls,      \* storage: the records store_validation_result accepted, in order
    results,          \* storage: the stored validation result of each problem id
    active_validations, \* API: the module-level dict of validation requests
    next_id,          \* API: the number of request ids generated so far
    queue,            \* broker: ids whose task is in validation_tasks, unacknowledged
    vp,               \* API: position of a validate_problem call inside publish
    pvt,              \* API: position of a process_validation_task call
    failed_ids,       \* history: ids whose processing has ended in failure
    deliveries,       \* broker: deliveries made so far
    responses,        \* history: the last answer of get_validation_status per id
    rl_store,         \* Redis: per rate-limit key, nothing or its count and expiry
    rl_calls,         \* rate limiter: the check_rate_limit calls in progress
    collected_data,   \* MongoDB: the documents of collection collected_data, oldest first
    cd_last,          \* storage: the last StorageService call and what it returned
    cd_deleted,       \* history: ids deleted with result True and not stored since
    del_response,     \* per problem id, the answer of the last delete_problem call
    published,        \* the ids whose task publish() handed to the broker
    mq,               \* broker: per message of validation_tasks, its body and where it is
    mh,               \* message_handler of consume: its position and the message it holds
    mh_sent,          \* history: what message_handler sent the broker for its last delivery
    auth_log          \* history: the get_current_user calls made, token and outcome

avars == <<posts, report, classifier_calls, kept, call_log>>
wvars == <<w_call, w_message, w_plan, w_pc, attempt, collect_calls, analyze_calls>>
svars == <<store_calls, results>>
gvars == <<active_validations, next_id, queue, vp, pvt, failed_ids, deliveries, responses>>
lvars == <<rl_store, rl_calls>>
cvars == <<collected_data, cd_last, cd_deleted>>
hvars == <<del_response, published>>
qvars == <<mq, mh, mh_sent>>
uvars == <<auth_log>>
vars == <<avars, wvars, svars, gvars, lvars, cvars, hvars, qvars, uvars>>

-----------------------------------------------------------------------------
(* Bounds of the model *)

MaxPosts == 2         \* posts per batch
MaxComments == 1      \* top_comments per post
UnitsPerDay == 2      \* resolution of a timestamp: units per calendar day
MaxRequests == 2      \* problem ids (validation requests) in a run
MaxDeliveries == 2    \* deliveries of task messages in a run
MaxCalls == 3         \* successive calls on one SentimentAnalyzer
MaxInFlight == 2      \* check_rate_limit calls in progress at once
MaxDocs == 3          \* documents in the collection collected_data
MaxMessages == 2      \* messages published to validation_tasks for the worker
MaxAuthCalls == 2     \* requests authenticated in a run

-----------------------------------------------------------------------------
(* Exact rational arithmetic *)

Abs(x) == IF x < 0 THEN -x ELSE x

RECURSIVE GCD(_, _)
GCD(a, b) == IF b = 0 THEN Abs(a) ELSE GCD(b, a % Abs(b))

Rat(n, d) == LET g == GCD(n, d) IN <<n \div g, d \div g>>

RAdd(a, b) ==
    LET g == GCD(a[2], b[2])
    IN  Rat(a[1] * (b[2] \div g) + b[1] * (a[2] \div g), (a[2] \div g) * b[2])

RMul(a, b) == Rat(a[1] * b[1], a[2] * b[2])

RLess(a, b) == a[1] * b[2] < b[1] * a[2]

RLeq(a, b) == a[1] * b[2] <= b[1] * a[2]

\* Python's min(a, b): b only when b < a
RMin(a, b) == IF RLess(b, a) THEN b ELSE a

One == <<1, 1>>
Zero == <<0, 1>>

\* round(x, 2), as a count of hundredths; a tie goes to the even neighbour
Round2(q) ==
    LET x == 100 * q[1]
        fl == x \div q[2]
        rem == x % q[2]
    IN  IF 2 * rem < q[2] THEN fl
        ELSE IF 2 * rem > q[2] THEN fl + 1
        ELSE IF fl % 2 = 0 THEN fl ELSE fl + 1

-----------------------------------------------------------------------------
(* Input domain of the scoring pipeline *)

POSITIVE == "POSITIVE"
NEGATIVE == "NEGATIVE"
NEUTRAL == "NEUTRAL"
Labels == <<POSITIVE, NEGATIVE, NEUTRAL>>   \* insertion order of sentiment_counts

\* A text is known by what the pretrained pipeline does with it:
\*   "pos" / "neg"  the pipeline labels it POSITIVE / NEGATIVE
\*   "empty"        empty or whitespace-only text
\*   "fail"         the pipeline raises on it
\*   "long"         more than max_length characters, in two chunks the
\*                  pipeline labels POSITIVE
\*   "long_fail"    more than max_length characters; the pipeline raises on
\*                  the second of its two chunks

\* An optional value: <<v>> when present, <<>> when not
Some(v) == <<v>>
NoScore == <<>>              \* a comment without a "score" key
BadTs == <<>>                \* a created_utc that is missing or not ISO-8601

\* thresholds of the validation flags (lines 82-86)
min_sample_size == 10
min_total_engagement == 50

PostScores == {-1, 0, 1000}
NumComments == {-2000, 10}
\* in units of 1/UnitsPerDay of a day; the last one is 12 days after the first
Timestamps == {Some(0), Some(3), Some(12 * UnitsPerDay)}
CommentScores == {Some(-1), Some(5), NoScore}
PostTexts == {"pos", "neg", "empty", "fail", "long", "long_fail"}
CommentTexts == {"neg"}

Comment == [body : CommentTexts, score : CommentScores]

RECURSIVE SeqsUpTo(_, _)
SeqsUpTo(S, n) ==
    IF n = 0 THEN {<<>>}
    ELSE LET shorter == SeqsUpTo(S, n - 1)
         IN  shorter \cup {Append(q, x) : q \in {r \in shorter : Len(r) = n - 1}, x \in S}

\* a post with two top comments the pipeline labels differently
MixedCommentsPost ==
    [text |-> "empty", score |-> 0, num_comments |-> 10, created_utc |-> Some(0),
     top_comments |-> <<[body |-> "pos", score |-> Some(5)],
                        [body |-> "neg", score |-> NoScore]>>]

\* The posts of a batch: an ordinary post (score 0, 10 comments counted, first
\* timestamp, no top comment) varied in its text, or in its top comments, or
\* in its engagement counters, or in its timestamp.  A batch mixes them freely.
Post ==
    [text : PostTexts, score : {0}, num_comments : {10},
     created_utc : {Some(0)}, top_comments : {<<>>}]
    \cup
    [text : {"pos"}, score : {0}, num_comments : {10},
     created_utc : {Some(0)}, top_comments : SeqsUpTo(Comment, MaxComments)]
    \cup
    {MixedCommentsPost}
    \cup
    [text : {"pos"}, score : PostScores, num_comments : NumComments,
     created_utc : {Some(0)}, top_comments : {<<>>}]
    \cup
    [text : {"pos"}, score : {0}, num_comments : {10},
     created_utc : Timestamps \cup {BadTs}, top_comments : {<<>>}]

Batches == SeqsUpTo(Post, MaxPosts)

\* Batches around the sample-size threshold: copies of one post and one more
LargeSizes == {min_sample_size - 1, min_sample_size, min_sample_size + 1}
LargeBatches ==
    {[i \in 1..n |-> IF i < n THEN p ELSE q] : n \in LargeSizes, p \in Post, q \in Post}

\* One post on each of n consecutive calendar days: the first at time of day
\* a, the last at b, the others at c
DayPost(day, tod) ==
    [text |-> "pos", score |-> 0, num_comments |-> 10,
     created_utc |-> Some(day * UnitsPerDay + tod), top_comments |-> <<>>]
DayCounts == {1, 2, 3, min_sample_size}
TimesOfDay == 0..(UnitsPerDay - 1)
ConsecutiveDayBatches ==
    {[i \in 1..n |-> DayPost(i - 1, IF i = 1 THEN a ELSE IF i = n THEN b ELSE c)] :
        n \in DayCounts, a \in TimesOfDay, b \in TimesOfDay, c \in TimesOfDay}

InputBatches == Batches \cup LargeBatches \cup ConsecutiveDayBatches

-----------------------------------------------------------------------------
(* SentimentAnalyzer *)

\* self.sentiment_pipeline(text)[0] of a deterministic pretrained model;
\* its score is a count of hundredths
sentiment_pipeline(text) ==
    IF text = "pos" THEN [label |-> POSITIVE, score |-> 90]
    ELSE [label |-> NEGATIVE, score |-> 80]

\* the chunks of max_length characters of a text (line 27)
Chunks(text) ==
    IF text = "long" THEN <<"pos", "pos">>
    ELSE IF text = "long_fail" THEN <<"pos", "fail">>
    ELSE <<text>>

\* the default of lines 20 and 41
DefaultSentiment(called) ==
    [label |-> NEUTRAL, score |-> 50, called |-> called, raised |-> FALSE]

\* a variant without the try/except around the pipeline
analyze_sentiment_NoCatch(text) ==
    IF text = "empty" THEN DefaultSentiment(0)
    ELSE IF text \in {"fail", "long_fail"}
    THEN [label |-> NEUTRAL, score |-> 50, called |-> Len(Chunks(text)), raised |-> TRUE]
    ELSE [label |-> sentiment_pipeline(Chunks(text)[1]).label,
          score |-> sentiment_pipeline(Chunks(text)[1]).score,
          called |-> Len(Chunks(text)), raised |-> FALSE]

\* analyze_sentiment: the result, how often the pipeline was invoked, and
\* whether an exception left the method.
\* An exception of the pipeline is caught (lines 39-41); a long text gets the
\* average score and the most frequent label of its chunks (the long texts
\* above have no tie between labels).
analyze_sentiment(text) ==
    IF text = "empty" THEN DefaultSentiment(0)
    ELSE LET chunks == Chunks(text)
             n == Len(chunks)
             failing == {k \in 1..n : chunks[k] = "fail"}
         IN  IF failing # {}
             THEN DefaultSentiment(CHOOSE k \in failing : \A j \in failing : k <= j)
             ELSE IF n > 1
             THEN LET labelled == [k \in 1..n |-> sentiment_pipeline(chunks[k])]
                      total == labelled[1].score + labelled[2].score
                      votes(l) == Cardinality({k \in 1..n : labelled[k].label = l})
                  IN  [label |-> CHOOSE l \in {POSITIVE, NEGATIVE} :
                                    \A m \in {POSITIVE, NEGATIVE} : votes(m) <= votes(l),
                       score |-> total \div n, called |-> n, raised |-> FALSE]
             ELSE [label |-> sentiment_pipeline(text).label,
                   score |-> sentiment_pipeline(text).score, called |-> 1,
                   raised |-> FALSE]

\* math.log(1 + x) raises ValueError unless 1 + x > 0
LogRaises(x) == 1 + x <= 0

\* comment.get("score", 1)
CommentScore(c) == IF c.score = NoScore THEN 1 ELSE c.score[1]

\* the inner loop over post.get('top_comments', []), from comment j on;
\* acc = [sentiments, calls, raised]
RECURSIVE CommentLoop(_, _, _)
CommentLoop(cs, j, acc) ==
    IF j > Len(cs) \/ acc.raised THEN acc
    ELSE LET s == analyze_sentiment(cs[j].body)
             calls == acc.calls + s.called
         IN  IF s.raised \/ LogRaises(CommentScore(cs[j]))
             THEN [acc EXCEPT !.calls = calls, !.raised = TRUE]
             ELSE CommentLoop(cs, j + 1,
                    [acc EXCEPT !.calls = calls,
                                !.sentiments = Append(@, [label |-> s.label, score |-> s.score])])

\* the loop "for post in posts", from post i on
RECURSIVE PostLoop(_, _, _)
PostLoop(ps, i, acc) ==
    IF i > Len(ps) \/ acc.raised THEN acc
    ELSE LET s == analyze_sentiment(ps[i].text)
             calls == acc.calls + s.called
         IN  IF s.raised \/ LogRaises(ps[i].score)
             THEN [acc EXCEPT !.calls = calls, !.raised = TRUE]
             ELSE PostLoop(ps, i + 1,
                    CommentLoop(ps[i].top_comments, 1,
                      [acc EXCEPT !.calls = calls,
                                  !.sentiments = Append(@, [label |-> s.label, score |-> s.score])]))

RECURSIVE SumOver(_, _, _)
SumOver(ps, i, field) ==
    IF i > Len(ps) THEN 0
    ELSE (IF field = "score" THEN ps[i].score ELSE ps[i].num_comments)
         + SumOver(ps, i + 1, field)

\* a variant that counts only the labels the pretrained pipeline emits
CountLabel_PipelineLabelsOnly(sentiments, label) ==
    IF label = NEUTRAL THEN 0
    ELSE Cardinality({k \in 1..Len(sentiments) : sentiments[k].label = label})

\* sentiment_counts[label] after the loop of lines 155-159
CountLabel(sentiments, label) ==
    Cardinality({k \in 1..Len(sentiments) : sentiments[k].label = label})

RECURSIVE TotalScore(_, _)
TotalScore(sentiments, k) ==
    IF k > Len(sentiments) THEN 0 ELSE sentiments[k].score + TotalScore(sentiments, k + 1)

_calculate_empty_sentiment_summary ==
    [overall_sentiment |-> NEUTRAL,
     positive_ratio |-> Zero, negative_ratio |-> Zero, neutral_ratio |-> One,
     average_score |-> <<1, 2>>]

\* max(sentiment_counts.items(), key=lambda x: x[1])[0]: the first label, in
\* the insertion order of the dict, whose count is maximal
OverallSentiment(counts) ==
    LET best == CHOOSE k \in 1..3 :
                  /\ \A j \in 1..3 : counts[j] <= counts[k]
                  /\ \A j \in 1..(k - 1) : counts[j] < counts[k]
    IN  Labels[best]

\* a variant that resolves a tie by the item that came first
_calculate_sentiment_summary_FirstSeenTie(sentiments) ==
    IF sentiments = <<>> THEN _calculate_empty_sentiment_summary
    ELSE LET counts == [k \in 1..3 |-> CountLabel(sentiments, Labels[k])]
             total == Len(sentiments)
             first == CHOOSE n \in 1..total :
                        /\ \A j \in 1..3 : counts[j] <= CountLabel(sentiments, sentiments[n].label)
                        /\ \A m \in 1..(n - 1) :
                              CountLabel(sentiments, sentiments[m].label)
                                < CountLabel(sentiments, sentiments[n].label)
         IN  [overall_sentiment |-> sentiments[first].label,
              positive_ratio |-> Rat(counts[1], total),
              negative_ratio |-> Rat(counts[2], total),
              neutral_ratio |-> Rat(counts[3], total),
              average_score |-> Rat(TotalScore(sentiments, 1), 100 * total)]

_calculate_sentiment_summary(sentiments) ==
    IF sentiments = <<>> THEN _calculate_empty_sentiment_summary
    ELSE LET counts == [k \in 1..3 |-> CountLabel(sentiments, Labels[k])]
             total == Len(sentiments)
         IN  [overall_sentiment |-> OverallSentiment(counts),
              positive_ratio |-> Rat(counts[1], total),
              negative_ratio |-> Rat(counts[2], total),
              neutral_ratio |-> Rat(counts[3], total),
              average_score |-> Rat(TotalScore(sentiments, 1), 100 * total)]

_calculate_empty_engagement_metrics ==
    [avg_score |-> Zero, avg_comments |-> Zero, total_engagement |-> 0]

\* the scores of the comments of post i onwards plus the number of comments
RECURSIVE CommentEngagement(_, _)
CommentEngagement(ps, i) ==
    IF i > Len(ps) THEN 0
    ELSE LET cs == ps[i].top_comments
             RECURSIVE Scores(_)
             Scores(j) == IF j > Len(cs) THEN 0 ELSE CommentScore(cs[j]) + Scores(j + 1)
         IN  Scores(1) + Len(cs) + CommentEngagement(ps, i + 1)

\* a variant that also counts the nested comments and their scores
_calculate_engagement_metrics_CountsComments(ps) ==
    IF ps = <<>> THEN _calculate_empty_engagement_metrics
    ELSE [avg_score |-> Rat(SumOver(ps, 1, "score"), Len(ps)),
          avg_comments |-> Rat(SumOver(ps, 1, "num_comments"), Len(ps)),
          total_engagement |-> SumOver(ps, 1, "score") + SumOver(ps, 1, "num_comments")
                               + CommentEngagement(ps, 1)]

_calculate_engagement_metrics(ps) ==
    IF ps = <<>> THEN _calculate_empty_engagement_metrics
    ELSE [avg_score |-> Rat(SumOver(ps, 1, "score"), Len(ps)),
          avg_comments |-> Rat(SumOver(ps, 1, "num_comments"), Len(ps)),
          total_engagement |-> SumOver(ps, 1, "score") + SumOver(ps, 1, "num_comments")]

_calculate_empty_temporal_analysis ==
    [earliest_post |-> <<>>, latest_post |-> <<>>,
     avg_posts_per_day |-> Zero, activity_period_days |-> 0]

\* days_span = (latest - earliest).days + 1: .days is the floor of the
\* difference in days
\* a variant whose span is not inclusive
DaysSpan_NotInclusive(earliest, latest) == (latest - earliest) \div UnitsPerDay

\* a variant that counts the calendar days from the first to the last
DaysSpan_CalendarDays(earliest, latest) ==
    (latest \div UnitsPerDay) - (earliest \div UnitsPerDay) + 1

DaysSpan(earliest, latest) == ((latest - earliest) \div UnitsPerDay) + 1

\* a variant that leaves out the posts whose created_utc does not parse
_analyze_temporal_distribution_SkipsBad(ps) ==
    LET dates == {ps[i].created_utc[1] : i \in {k \in 1..Len(ps) : ps[k].created_utc # BadTs}}
    IN  IF dates = {} THEN [raised |-> FALSE] @@ _calculate_empty_temporal_analysis
        ELSE LET earliest == CHOOSE d \in dates : \A e \in dates : d <= e
                 latest == CHOOSE d \in dates : \A e \in dates : e <= d
                 days_span == DaysSpan(earliest, latest)
             IN  [raised |-> FALSE,
                  earliest_post |-> Some(earliest), latest_post |-> Some(latest),
                  avg_posts_per_day |-> Rat(Len(ps), days_span),
                  activity_period_days |-> days_span]

\* datetime.fromisoformat(post["created_utc"]) raises on a missing or
\* malformed value
_analyze_temporal_distribution(ps) ==
    IF ps = <<>> THEN [raised |-> FALSE] @@ _calculate_empty_temporal_analysis
    ELSE IF \E i \in 1..Len(ps) : ps[i].created_utc = BadTs
    THEN [raised |-> TRUE, earliest_post |-> <<>>, latest_post |-> <<>>,
          avg_posts_per_day |-> Zero, activity_period_days |-> 0]
    ELSE LET dates == {ps[i].created_utc[1] : i \in 1..Len(ps)}
             earliest == CHOOSE d \in dates : \A e \in dates : d <= e
             latest == CHOOSE d \in dates : \A e \in dates : e <= d
             days_span == DaysSpan(earliest, latest)
         IN  [raised |-> FALSE,
              earliest_post |-> Some(earliest), latest_post |-> Some(latest),
              avg_posts_per_day |-> IF days_span > 0 THEN Rat(Len(ps), days_span)
                                    ELSE Rat(Len(ps), 1),
              activity_period_days |-> days_span]

\* Policy constants of the two scores
SENTIMENT_WEIGHT == <<4, 10>>
ENGAGEMENT_WEIGHT == <<4, 10>>
TEMPORAL_WEIGHT == <<2, 10>>
max_engagement == 1000
avg_posts_threshold == 5
PostsForMaxConfidence == 20
EngagementForMaxConfidence == 200
PostsPerDayForMaxConfidence == 3

\* min(x / d, 1.0)
CappedShare(x, d) == RMin(RMul(x, <<1, d>>), One)

\* a variant that starts again from 0 at every multiple of max_engagement
engagement_score_Wraps(total_engagement) ==
    CappedShare(<<total_engagement % max_engagement, 1>>, max_engagement)

\* engagement_score = min(total_engagement / max_engagement, 1.0)
engagement_score(total_engagement) == CappedShare(<<total_engagement, 1>>, max_engagement)

_calculate_validation_score(sentiment_summary, engagement_metrics, temporal_analysis) ==
    LET sentiment_score ==
            RAdd(RMul(sentiment_summary.positive_ratio, One),
                 RAdd(RMul(sentiment_summary.neutral_ratio, <<1, 2>>),
                      RMul(sentiment_summary.negative_ratio, Zero)))
        engagement_part == engagement_score(engagement_metrics.total_engagement)
        temporal_score ==
            CappedShare(temporal_analysis.avg_posts_per_day, avg_posts_threshold)
        validation_score ==
            RAdd(RMul(sentiment_score, SENTIMENT_WEIGHT),
                 RAdd(RMul(engagement_part, ENGAGEMENT_WEIGHT),
                      RMul(temporal_score, TEMPORAL_WEIGHT)))
    IN  Round2(validation_score)

_calculate_confidence_score(num_posts, total_engagement, posts_per_day) ==
    LET post_confidence == CappedShare(<<num_posts, 1>>, PostsForMaxConfidence)
        engagement_confidence ==
            CappedShare(<<total_engagement, 1>>, EngagementForMaxConfidence)
        activity_confidence == CappedShare(posts_per_day, PostsPerDayForMaxConfidence)
        weighted_score ==
            RAdd(RMul(post_confidence, <<4, 10>>),
                 RAdd(RMul(engagement_confidence, <<4, 10>>),
                      RMul(activity_confidence, <<2, 10>>)))
    IN  Round2(weighted_score)

\* a variant that also flags an average of exactly one post per day
ValidationFlags_ActivityAtMost(num_posts, engagement_metrics, temporal_analysis) ==
    (IF num_posts < min_sample_size THEN <<"low_sample_size">> ELSE <<>>)
    \o (IF engagement_metrics.total_engagement < min_total_engagement
        THEN <<"low_engagement">> ELSE <<>>)
    \o (IF RLeq(temporal_analysis.avg_posts_per_day, One) THEN <<"low_activity">> ELSE <<>>)

\* the flags appended at lines 82-87, in that order
ValidationFlags(num_posts, engagement_metrics, temporal_analysis) ==
    (IF num_posts < min_sample_size THEN <<"low_sample_size">> ELSE <<>>)
    \o (IF engagement_metrics.total_engagement < min_total_engagement
        THEN <<"low_engagement">> ELSE <<>>)
    \o (IF RLess(temporal_analysis.avg_posts_per_day, One) THEN <<"low_activity">> ELSE <<>>)

Raised(calls) == [kind |-> "raised", calls |-> calls]

\* the report of the empty batch, lines 45-53
EmptyReport ==
    [kind |-> "report", calls |-> 0,
     sentiment_summary |-> _calculate_empty_sentiment_summary,
     engagement_metrics |-> _calculate_empty_engagement_metrics,
     temporal_analysis |-> _calculate_empty_temporal_analysis,
     validation_score |-> 0, confidence_score |-> 0,
     validation_flags |-> <<"insufficient_data">>]

\* lines 55-110: classify every item, derive the three summaries, the flags
\* and the two scores
AnalyzeBatch(ps) ==
    LET loop == PostLoop(ps, 1, [sentiments |-> <<>>, calls |-> 0, raised |-> FALSE])
        sentiment_summary == _calculate_sentiment_summary(loop.sentiments)
        engagement_metrics == _calculate_engagement_metrics(ps)
        temporal_analysis == _analyze_temporal_distribution(ps)
    IN  IF loop.raised \/ temporal_analysis.raised THEN Raised(loop.calls)
        ELSE [kind |-> "report", calls |-> loop.calls,
              sentiment_summary |-> sentiment_summary,
              engagement_metrics |-> engagement_metrics,
              temporal_analysis |-> [f \in {"earliest_post", "latest_post",
                                            "avg_posts_per_day", "activity_period_days"}
                                       |-> temporal_analysis[f]],
              validation_score |->
                  _calculate_validation_score(sentiment_summary, engagement_metrics,
                                              temporal_analysis),
              confidence_score |->
                  _calculate_confidence_score(Len(ps),
                                              engagement_metrics.total_engagement,
                                              temporal_analysis.avg_posts_per_day),
              validation_flags |->
                  ValidationFlags(Len(ps), engagement_metrics, temporal_analysis)]

\* a variant without the early return for an empty batch
analyze_problem_validation_NoEmptyCase(ps) == AnalyzeBatch(ps)

\* analyze_problem_validation(posts): a report, or the fact that the call
\* raised; "calls" counts the invocations of the pretrained pipeline
analyze_problem_validation(ps) ==
    IF ps = <<>> THEN EmptyReport ELSE AnalyzeBatch(ps)

-----------------------------------------------------------------------------
(* RateLimiter and the Redis keys it reads *)

Users == {"alice", "bob"}
Paths == {"validate", "problems/p1"}      \* request.url.path.strip("/")
Slots == 1..MaxInFlight

\* path.split("/")[0]
BaseEndpoint(path) == IF path = "validate" THEN "validate" ELSE "problems"

\* requests per window, window in seconds
default_rate_limits ==
    [e \in {"validate", "list", "status"} |->
        [limit |-> IF e = "validate" THEN 5 ELSE IF e = "list" THEN 30 ELSE 60,
         window |-> 15 * 60]]

_get_rate_limit(endpoint) ==
    LET base_endpoint == BaseEndpoint(endpoint)
    IN  IF base_endpoint \in DOMAIN default_rate_limits
        THEN default_rate_limits[base_endpoint]
        ELSE [limit |-> 100, window |-> 15 * 60]

\* f"rate_limit:{user_id}:{endpoint}"
_get_cache_key(path, user_id) == <<"rate_limit", user_id, BaseEndpoint(path)>>

RateKeys == {_get_cache_key(p, u) : p \in Paths, u \in Users}

NoKey == <<>>
NoRateCall == [pc |-> "idle", user |-> "", path |-> "", current_count |-> 0, outcome |-> ""]

NoStorageCall == [op |-> "none", problem_id |-> 0, result |-> <<>>]

\* an empty collection collected_data and no call made
CollectionEmpty ==
    /\ collected_data = <<>>
    /\ cd_last = NoStorageCall
    /\ cd_deleted = {}

\* no delete_problem call was answered and no task was published
NoDeleteNorPublish ==
    /\ del_response = [i \in 1..MaxRequests |-> "none"]
    /\ published = {}

\* no message was published for the consumer and message_handler is not running
ConsumerIdle ==
    /\ mq = [m \in 1..MaxMessages |->
                [body |-> [decodes |-> FALSE,
                           value |-> [shape |-> "other", problem_id |-> <<>>, problem |-> <<>>]],
                 state |-> "absent"]]
    /\ mh = [pc |-> "idle", msg |-> 0]
    /\ mh_sent = <<>>

\* no request has been authenticated
NoAuthCall == auth_log = <<>>

\* a Redis without rate-limit keys and no call in progress
LimiterIdle ==
    /\ rl_store = [k \in RateKeys |-> NoKey]
    /\ rl_calls = [c \in Slots |-> NoRateCall]

-----------------------------------------------------------------------------
(* Specification of the scoring pipeline: one call on any batch *)

NoReport == [kind |-> "none"]

WorkerIdle ==
    /\ w_call = "none"
    /\ w_message = [shape |-> "other", problem_id |-> <<>>, problem |-> <<>>]
    /\ w_plan = <<>>
    /\ w_pc = "idle"
    /\ attempt = 0
    /\ collect_calls = 0
    /\ analyze_calls = 0

StorageEmpty ==
    /\ store_calls = <<>>
    /\ results = <<>>

NoCall == [pc |-> "idle", id |-> 0, flag |-> FALSE]
NoResponse == [kind |-> "none", status |-> "", error |-> "", settled_failure |-> FALSE]

\* the API process right after import: no request, nothing queued
ApiIdle ==
    /\ active_validations = <<>>
    /\ next_id = 0
    /\ queue = {}
    /\ vp = NoCall
    /\ pvt = NoCall
    /\ failed_ids = {}
    /\ deliveries = 0
    /\ responses = [i \in 1..MaxRequests |-> NoResponse]

InitAnalyzer ==
    /\ posts \in InputBatches
    /\ report = NoReport
    /\ classifier_calls = 0
    /\ kept = <<>>
    /\ call_log = <<>>
    /\ WorkerIdle
    /\ StorageEmpty
    /\ ApiIdle
    /\ LimiterIdle
    /\ CollectionEmpty
    /\ NoDeleteNorPublish
    /\ ConsumerIdle
    /\ NoAuthCall

AnalyzeProblemValidation ==
    /\ report = NoReport
    /\ LET r == analyze_problem_validation(posts)
       IN  /\ report' = r
           /\ classifier_calls' = r.calls
    /\ UNCHANGED <<posts, kept, call_log, wvars, svars, gvars, uvars, qvars, hvars, cvars, lvars>>

NextAnalyzer == AnalyzeProblemValidation

SpecAnalyzer == InitAnalyzer /\ [][NextAnalyzer]_vars

-----------------------------------------------------------------------------
(* Claims about the scoring pipeline, checked under SpecAnalyzer *)

Returned == report.kind = "report"

\* the classified items of a batch: one per post plus one per top comment
RECURSIVE NumItems(_, _)
NumItems(ps, i) ==
    IF i > Len(ps) THEN 0 ELSE 1 + Len(ps[i].top_comments) + NumItems(ps, i + 1)

AllTimestampsParse == \A i \in 1..Len(posts) : posts[i].created_utc # BadTs

\* C1: whenever analyze_problem_validation returns a report, validation_score
\* and confidence_score both lie in [0, 1] (0..100 hundredths).
C1_ScoresInUnitInterval ==
    Returned => /\ 0 <= report.validation_score /\ report.validation_score <= 100
                /\ 0 <= report.confidence_score /\ report.confidence_score <= 100

\* C2: for a non-empty batch the three ratios of the sentiment summary are
\* whole counts over the number of classified items (posts plus comments)
\* and add up to exactly 1.
C2_RatiosSumToOne ==
    (Returned /\ posts # <<>>) =>
        LET ss == report.sentiment_summary
            n == NumItems(posts, 1)
            ratios == {ss.positive_ratio, ss.negative_ratio, ss.neutral_ratio}
        IN  /\ RAdd(ss.positive_ratio, RAdd(ss.negative_ratio, ss.neutral_ratio)) = One
            /\ \A r \in ratios : r[1] >= 0 /\ (r[1] * n) % r[2] = 0

\* C2 witness: a report for a batch with a top comment in which all three
\* labels occur.
C2_Witness ==
    /\ Returned
    /\ \E i \in 1..Len(posts) : posts[i].top_comments # <<>>
    /\ report.sentiment_summary.positive_ratio[1] > 0
    /\ report.sentiment_summary.negative_ratio[1] > 0
    /\ report.sentiment_summary.neutral_ratio[1] > 0

\* C3: on the empty batch the call returns the canonical empty report without
\* raising and without one invocation of the classifier.
C3_EmptyBatchReport ==
    (posts = <<>> /\ report # NoReport) =>
        /\ Returned
        /\ classifier_calls = 0
        /\ report.validation_score = 0
        /\ report.confidence_score = 0
        /\ report.validation_flags = <<"insufficient_data">>
        /\ report.sentiment_summary.neutral_ratio = One
        /\ report.sentiment_summary.positive_ratio = Zero
        /\ report.sentiment_summary.negative_ratio = Zero

\* C3 witness: the call has returned on the empty batch.
C3_Witness == posts = <<>> /\ Returned

\* C10: on a non-empty batch whose timestamps all parse the call returns a
\* report, whatever the post and comment scores are.
C10_OnlyTimestampsFail ==
    (report # NoReport /\ posts # <<>> /\ AllTimestampsParse) => Returned

\* the flags of the report, as a set
FlagSet == {report.validation_flags[k] : k \in 1..Len(report.validation_flags)}

\* C11: for a non-empty batch low_sample_size is flagged exactly when there
\* are fewer than 10 posts, low_engagement exactly when total_engagement is
\* below 50, low_activity exactly when avg_posts_per_day is below 1 (not at
\* 1.0), each whatever the other two are; insufficient_data is never flagged.
C11_FlagsByThreshold ==
    (Returned /\ posts # <<>>) =>
        /\ ("low_sample_size" \in FlagSet) <=> (Len(posts) < 10)
        /\ ("low_engagement" \in FlagSet) <=>
                (report.engagement_metrics.total_engagement < 50)
        /\ ("low_activity" \in FlagSet) <=>
                RLess(report.temporal_analysis.avg_posts_per_day, One)
        /\ "insufficient_data" \notin FlagSet
        /\ Len(report.validation_flags) = Cardinality(FlagSet)

\* C11 witness: a report for exactly 10 posts with exactly one post per day
\* and enough engagement: no flag at all.
C11_Witness ==
    /\ Returned /\ Len(posts) = 10
    /\ report.temporal_analysis.avg_posts_per_day = One
    /\ report.validation_flags = <<>>

\* the call can fail on post i only because of its timestamp
OnlyTimestampCanFail(i) ==
    /\ ~LogRaises(posts[i].score)
    /\ \A j \in 1..Len(posts[i].top_comments) :
            ~LogRaises(CommentScore(posts[i].top_comments[j]))

\* C12: if a post of a non-empty batch has a missing or unparseable
\* created_utc, the call raises and returns no report at all.
C12_BadTimestampFailsCall ==
    (report # NoReport /\ posts # <<>> /\ ~AllTimestampsParse) =>
        /\ report.kind = "raised"
        /\ DOMAIN report = {"kind", "calls"}

\* C12 witness: the call raised on a batch of one post without a usable
\* timestamp and one post with a timestamp, whose scores are all harmless.
C12_Witness ==
    /\ report.kind = "raised"
    /\ Len(posts) = 2
    /\ \A i \in 1..Len(posts) : OnlyTimestampCanFail(i)
    /\ \E i \in 1..Len(posts) : posts[i].created_utc = BadTs
    /\ \E i \in 1..Len(posts) : posts[i].created_utc # BadTs

\* the invocations of the pipeline for a text: none for an empty text, else
\* one per chunk up to the first chunk it raises on
PipelineCalls(text) ==
    IF text = "empty" THEN 0
    ELSE IF text = "fail" THEN 1
    ELSE Len(Chunks(text))

RECURSIVE ExpectedCalls(_, _)
ExpectedCalls(ps, i) ==
    IF i > Len(ps) THEN 0
    ELSE PipelineCalls(ps[i].text)
         + Cardinality({j \in 1..Len(ps[i].top_comments) :
                            ps[i].top_comments[j].body # "empty"})
         + ExpectedCalls(ps, i + 1)

\* C13: analyze_sentiment never raises: an empty text gives {NEUTRAL, 0.5}
\* without a call of the pipeline, a text the pipeline fails on gives
\* {NEUTRAL, 0.5}; so a batch whose scores and timestamps are harmless gets
\* its report whatever the pipeline does on its texts, every text classified.
C13_ClassifierFailureContained ==
    /\ \A i \in 1..Len(posts) :
          LET s == analyze_sentiment(posts[i].text)
          IN  /\ ~s.raised
              /\ posts[i].text = "empty" => (s.label = NEUTRAL /\ s.score = 50 /\ s.called = 0)
              /\ posts[i].text \in {"fail", "long_fail"} => (s.label = NEUTRAL /\ s.score = 50)
    /\ ( /\ report # NoReport /\ posts # <<>> /\ AllTimestampsParse
          /\ \A i \in 1..Len(posts) : OnlyTimestampCanFail(i) )
        => /\ Returned
           /\ classifier_calls = ExpectedCalls(posts, 1)
           /\ report.sentiment_summary.neutral_ratio[1] * NumItems(posts, 1)
                >= report.sentiment_summary.neutral_ratio[2]
                   * Cardinality({i \in 1..Len(posts) :
                                    posts[i].text \in {"empty", "fail", "long_fail"}})

\* C13 witness: a report for a batch in which the pipeline failed on one
\* post and classified another.
C13_Witness ==
    /\ Returned
    /\ \E i \in 1..Len(posts) : posts[i].text = "fail"
    /\ \E i \in 1..Len(posts) : posts[i].text = "pos"
    /\ report.sentiment_summary.neutral_ratio[1] > 0
    /\ report.sentiment_summary.positive_ratio[1] > 0

\* the calendar day and the time of day of a timestamp
DayOf(ts) == ts[1] \div UnitsPerDay
TimeOfDay(ts) == ts[1] % UnitsPerDay

\* exactly one post on each of Len(ps) consecutive calendar days
OnePostPerConsecutiveDay(ps) ==
    /\ ps # <<>>
    /\ \A i \in 1..Len(ps) : ps[i].created_utc # BadTs
    /\ \A i, j \in 1..Len(ps) : i # j => DayOf(ps[i].created_utc) # DayOf(ps[j].created_utc)
    /\ \E first \in 1..Len(ps) :
          {DayOf(ps[i].created_utc) : i \in 1..Len(ps)}
            = DayOf(ps[first].created_utc)..(DayOf(ps[first].created_utc) + Len(ps) - 1)

EarliestPost(ps) ==
    ps[CHOOSE i \in 1..Len(ps) :
         \A j \in 1..Len(ps) : ps[i].created_utc[1] <= ps[j].created_utc[1]]
LatestPost(ps) ==
    ps[CHOOSE i \in 1..Len(ps) :
         \A j \in 1..Len(ps) : ps[j].created_utc[1] <= ps[i].created_utc[1]]

\* C16 as stated: one post on each of N consecutive calendar days, at any
\* times of day, gives activity_period_days = N and avg_posts_per_day = 1.
C16_AsClaimed ==
    (Returned /\ OnePostPerConsecutiveDay(posts)) =>
        /\ report.temporal_analysis.activity_period_days = Len(posts)
        /\ report.temporal_analysis.avg_posts_per_day = One

\* C16 (amended): one post on each of N consecutive calendar days gives
\* activity_period_days = N and avg_posts_per_day = 1 when the latest post is
\* not at an earlier time of day than the earliest post; otherwise the span
\* is N - 1 days and the average N / (N - 1).
C16_ConsecutiveDays ==
    (Returned /\ OnePostPerConsecutiveDay(posts)) =>
        LET N == Len(posts)
            early == TimeOfDay(EarliestPost(posts).created_utc)
            late == TimeOfDay(LatestPost(posts).created_utc)
        IN  IF early <= late
            THEN /\ report.temporal_analysis.activity_period_days = N
                 /\ report.temporal_analysis.avg_posts_per_day = One
            ELSE /\ N >= 2
                 /\ report.temporal_analysis.activity_period_days = N - 1
                 /\ report.temporal_analysis.avg_posts_per_day = Rat(N, N - 1)

\* C16 witness: ten posts on ten consecutive days, the last one later in its
\* day than the first, reported as ten days at one post per day.
C16_Witness ==
    /\ Returned
    /\ OnePostPerConsecutiveDay(posts)
    /\ Len(posts) = 10
    /\ TimeOfDay(EarliestPost(posts).created_utc)
         < TimeOfDay(LatestPost(posts).created_utc)
    /\ report.temporal_analysis.activity_period_days = 10
    /\ report.temporal_analysis.avg_posts_per_day = One

\* C17: a report for a non-empty batch has activity_period_days >= 1 (exactly
\* 1 when all posts share one timestamp) and avg_posts_per_day > 0, and every
\* average and ratio in it is a quotient by a positive number: the number of
\* posts, the number of classified items, or the day span.
C17_DenominatorsPositive ==
    (Returned /\ posts # <<>>) =>
        LET t == report.temporal_analysis
            s == report.sentiment_summary
            e == report.engagement_metrics
        IN  /\ t.activity_period_days >= 1
            /\ (\A i \in 1..Len(posts) : posts[i].created_utc = posts[1].created_utc)
                  => t.activity_period_days = 1
            /\ RLess(Zero, t.avg_posts_per_day)
            /\ t.avg_posts_per_day = Rat(Len(posts), t.activity_period_days)
            /\ NumItems(posts, 1) >= 1
            /\ \A q \in {s.positive_ratio, s.negative_ratio, s.neutral_ratio} :
                  q[2] >= 1 /\ NumItems(posts, 1) % q[2] = 0
            /\ s.average_score[2] >= 1
            /\ (100 * NumItems(posts, 1)) % s.average_score[2] = 0
            /\ e.avg_score[2] >= 1 /\ Len(posts) % e.avg_score[2] = 0
            /\ e.avg_comments[2] >= 1 /\ Len(posts) % e.avg_comments[2] = 0

\* C17 witness: a report for two posts with one timestamp: a span of one day
\* and two posts per day.
C17_Witness ==
    /\ Returned
    /\ Len(posts) = 2
    /\ posts[1].created_utc = posts[2].created_utc
    /\ report.temporal_analysis.activity_period_days = 1
    /\ report.temporal_analysis.avg_posts_per_day = <<2, 1>>

\* the same posts with other nested comments: none at all, or one comment
\* given another score
CommentVariants(ps) ==
    {[i \in 1..Len(ps) |-> [ps[i] EXCEPT !.top_comments = <<>>]]}
    \cup UNION {{[ps EXCEPT ![i].top_comments[j].score = v] :
                    j \in 1..Len(ps[i].top_comments), v \in CommentScores} :
                 i \in 1..Len(ps)}

\* C18: total_engagement is the sum of the post scores plus the sum of the
\* post num_comments, avg_score and avg_comments are the means over the
\* posts, and the same posts with other nested comments (none, or other
\* scores) have the same engagement metrics.
C18_EngagementFromPostsOnly ==
    (Returned /\ posts # <<>>) =>
        LET e == report.engagement_metrics
        IN  /\ e.total_engagement
                  = SumOver(posts, 1, "score") + SumOver(posts, 1, "num_comments")
            /\ e.avg_score = Rat(SumOver(posts, 1, "score"), Len(posts))
            /\ e.avg_comments = Rat(SumOver(posts, 1, "num_comments"), Len(posts))
            /\ \A q \in CommentVariants(posts) :
                  LET r == analyze_problem_validation(q)
                  IN  r.kind = "report" => r.engagement_metrics = e

\* C18 witness: a report for a post that has a comment of score 5, with the
\* total engagement of the post alone.
C18_Witness ==
    /\ Returned
    /\ Len(posts) = 1
    /\ Len(posts[1].top_comments) >= 1
    /\ posts[1].top_comments[1].score = Some(5)
    /\ report.engagement_metrics.total_engagement = posts[1].score + posts[1].num_comments

\* amounts by which a post's score is raised
ScoreIncreases == {1, 990}

\* C19: raising the score of one post of the batch, all else fixed, never
\* lowers the engagement component min(total_engagement / 1000, 1.0), nor the
\* validation score built on it; at a total of 1000 or more the component is
\* 1.0 and stays 1.0.
C19_EngagementMonotonic ==
    (Returned /\ posts # <<>>) =>
        \A i \in 1..Len(posts), d \in ScoreIncreases :
            LET total == report.engagement_metrics.total_engagement
                r == analyze_problem_validation([posts EXCEPT ![i].score = @ + d])
            IN  /\ r.kind = "report"
                /\ r.engagement_metrics.total_engagement = total + d
                /\ RLeq(engagement_score(total), engagement_score(total + d))
                /\ report.validation_score <= r.validation_score
                /\ total >= max_engagement =>
                      /\ engagement_score(total) = One
                      /\ engagement_score(total + d) = One

\* C19 witness: a report for a post of score 1000, whose engagement component
\* is at its cap.
C19_Witness ==
    /\ Returned
    /\ Len(posts) = 1
    /\ posts[1].score = 1000
    /\ report.engagement_metrics.total_engagement >= max_engagement
    /\ engagement_score(report.engagement_metrics.total_engagement) = One

\* the same items in another order: two posts exchanged, or two comments of
\* one post exchanged
Swap(seq, a, b) ==
    [k \in 1..Len(seq) |-> IF k = a THEN seq[b] ELSE IF k = b THEN seq[a] ELSE seq[k]]

Reorderings(ps) ==
    {Swap(ps, a, b) : a \in 1..Len(ps), b \in 1..Len(ps)}
    \cup UNION {{[ps EXCEPT ![i].top_comments = Swap(@, a, b)] :
                    a \in 1..Len(ps[i].top_comments), b \in 1..Len(ps[i].top_comments)} :
                 i \in 1..Len(ps)}
    \cup {[k \in 1..Len(ps) |-> ps[Len(ps) + 1 - k]]}

\* the parts of a result that C15 speaks of
OrderFreeView(r) ==
    IF r.kind # "report" THEN [kind |-> r.kind]
    ELSE [kind |-> "report",
          overall_sentiment |-> r.sentiment_summary.overall_sentiment,
          positive_ratio |-> r.sentiment_summary.positive_ratio,
          negative_ratio |-> r.sentiment_summary.negative_ratio,
          neutral_ratio |-> r.sentiment_summary.neutral_ratio,
          engagement_metrics |-> r.engagement_metrics,
          temporal_analysis |-> r.temporal_analysis,
          validation_flags |-> r.validation_flags,
          validation_score |-> r.validation_score,
          confidence_score |-> r.confidence_score]

\* the first label, in the order POSITIVE, NEGATIVE, NEUTRAL, whose ratio is
\* maximal
FixedOrderWinner(summary) ==
    IF RLeq(summary.negative_ratio, summary.positive_ratio)
       /\ RLeq(summary.neutral_ratio, summary.positive_ratio) THEN POSITIVE
    ELSE IF RLeq(summary.neutral_ratio, summary.negative_ratio) THEN NEGATIVE
    ELSE NEUTRAL

\* C15: the same items in any other order give the same ratios, overall
\* sentiment, engagement metrics, temporal analysis, flags and scores (or the
\* call fails in both orders); a tie between labels goes to the first of
\* POSITIVE, NEGATIVE, NEUTRAL.
C15_OrderIndependent ==
    report # NoReport =>
        /\ \A q \in Reorderings(posts) :
              OrderFreeView(analyze_problem_validation(q)) = OrderFreeView(report)
        /\ Returned =>
              report.sentiment_summary.overall_sentiment
                = FixedOrderWinner(report.sentiment_summary)

\* C15 witness: a report for a negative post followed by a positive one, a
\* tie that goes to POSITIVE although the negative item came first.
C15_Witness ==
    /\ Returned
    /\ Len(posts) = 2
    /\ posts[1].text = "neg"
    /\ posts[2].text = "pos"
    /\ report.sentiment_summary.positive_ratio = <<1, 2>>
    /\ report.sentiment_summary.negative_ratio = <<1, 2>>
    /\ report.sentiment_summary.overall_sentiment = POSITIVE

-----------------------------------------------------------------------------
(* Successive calls on one SentimentAnalyzer instance.  The instance has    *)
(* one attribute, the pipeline; `sentiments` is a local list created empty  *)
(* by each call (line 56), so nothing is carried from call to call.         *)

\* a variant whose sentiments list belongs to the instance and is never reset
AnalyzerCall_KeepsSentiments(carried, ps) ==
    IF ps = <<>> THEN [report |-> EmptyReport, kept |-> carried, posts |-> ps]
    ELSE LET loop == PostLoop(ps, 1, [sentiments |-> carried, calls |-> 0, raised |-> FALSE])
             full == AnalyzeBatch(ps)
         IN  [report |-> IF full.kind = "raised" THEN full
                         ELSE [full EXCEPT !.sentiment_summary =
                                  _calculate_sentiment_summary(loop.sentiments)],
              kept |-> loop.sentiments, posts |-> ps]

\* one call analyze_problem_validation(ps) on an instance carrying `carried`:
\* its result, what the instance carries afterwards, and the list it was given
AnalyzerCall(carried, ps) ==
    [report |-> analyze_problem_validation(ps), kept |-> carried, posts |-> ps]

RepeatPosts ==
    [text : {"pos", "neg", "empty", "fail"}, score : {0}, num_comments : {10},
     created_utc : {Some(0)}, top_comments : {<<>>}] \cup {MixedCommentsPost}

RepeatBatches ==
    SeqsUpTo(RepeatPosts, 1) \cup {<<MixedCommentsPost, p>> : p \in RepeatPosts}

InitRepeat ==
    /\ posts = <<>>
    /\ report = NoReport
    /\ classifier_calls = 0
    /\ kept = <<>>
    /\ call_log = <<>>
    /\ WorkerIdle
    /\ StorageEmpty
    /\ ApiIdle
    /\ LimiterIdle
    /\ CollectionEmpty
    /\ NoDeleteNorPublish
    /\ ConsumerIdle
    /\ NoAuthCall

CallAnalyzer(ps) ==
    /\ Len(call_log) < MaxCalls
    /\ LET r == AnalyzerCall(kept, ps)
       IN  /\ posts' = r.posts
           /\ report' = r.report
           /\ classifier_calls' = r.report.calls
           /\ kept' = r.kept
           /\ call_log' = Append(call_log, [given |-> ps, after |-> r.posts,
                                            report |-> r.report])
    /\ UNCHANGED <<wvars, svars, gvars, uvars, qvars, hvars, cvars, lvars>>

NextRepeat == \E ps \in RepeatBatches : CallAnalyzer(ps)

SpecRepeat == InitRepeat /\ [][NextRepeat]_vars

-----------------------------------------------------------------------------
(* Storage of validation results.  The worker and the API call              *)
(* store_validation_result and get_validation_result on a StorageService;   *)
(* the class defines neither, so the attribute lookup raises AttributeError *)
(* at each call.  What the methods would do is the persistence service of   *)
(* the specification: it accepts a record under a caller-assigned           *)
(* identifier and returns it later.                                         *)

Ids == 1..MaxRequests

\* the methods of class StorageService
StorageMethods ==
    {"store_collected_data", "get_problem_data", "update_analysis_results",
     "list_problems", "delete_problem_data"}

HasMethod(name) == name \in StorageMethods

\* str(e) of the AttributeError of a lookup of a method the class lacks
NoMethodText == "'StorageService' object has no attribute"

store_validation_result(store, problem_id, record) ==
    [calls |-> Append(store.calls, record),
     results |-> [i \in DOMAIN store.results \cup {problem_id} |->
                    IF i = problem_id THEN record ELSE store.results[i]]]

\* self.storage_service.store_validation_result(problem_id, record): whether
\* the call raised, and the storage after it
StoreCall(store, problem_id, record) ==
    IF HasMethod("store_validation_result")
    THEN [raised |-> FALSE, store |-> store_validation_result(store, problem_id, record)]
    ELSE [raised |-> TRUE, store |-> store]

Store == [calls |-> store_calls, results |-> results]

-----------------------------------------------------------------------------
(* TaskWorker *)

max_retries == 3

\* A task message after json.loads: a dict with or without its two keys, or
\* a JSON value that is no dict (shape "other")
DictMessages == [shape : {"dict"}, problem_id : {<<>>} \cup {Some(i) : i \in Ids},
                 problem : {<<>>, Some("problem")}]
OtherMessage == [shape |-> "other", problem_id |-> <<>>, problem |-> <<>>]
Messages == DictMessages \cup {OtherMessage}

TaskMessage(i) == [shape |-> "dict", problem_id |-> Some(i), problem |-> Some("problem")]

\* not (not problem_id or not problem)
WellFormed(message) ==
    message.shape = "dict" /\ message.problem_id # <<>> /\ message.problem # <<>>

\* What one run of collect_posts followed by analyze_problem_validation does
Outcomes == {"ok", "collect_raises", "analyze_raises"}
Plans == [1..max_retries -> Outcomes]

\* str(e) of the exception a run raises
ErrorText(outcome) ==
    IF outcome = "collect_raises" THEN "collect_posts failed"
    ELSE "analyze_problem_validation failed"

ResultRecord(i) == [problem_id |-> i, status |-> "absent", error |-> ""]
FailedRecord(i, text) == [problem_id |-> i, status |-> "failed", error |-> text]

\* the outcome of a call of process_task: whether it raised to its caller,
\* the calls it made and the storage it leaves
TaskOutcome(raised, collected, analyzed, store) ==
    [raised |-> raised, collected |-> collected, analyzed |-> analyzed, store |-> store]

\* the except block of process_task (lines 109-118): the failed record is
\* handed to the storage; an exception of that call leaves process_task
HandleTaskError(i, text, collected, analyzed, store) ==
    LET st == StoreCall(store, i, FailedRecord(i, text))
    IN  TaskOutcome(st.raised, collected, analyzed, st.store)

\* a variant without the check of the message format
process_task_NoFormatCheck(message, outcome, store) ==
    IF message.shape # "dict" THEN TaskOutcome(TRUE, 0, 0, store)
    ELSE LET i == IF message.problem_id = <<>> THEN 0 ELSE message.problem_id[1]
         IN  IF message.problem = <<>>
             THEN HandleTaskError(i, "'NoneType' object is not subscriptable", 0, 0, store)
             ELSE IF outcome = "ok"
             THEN LET st == StoreCall(store, i, ResultRecord(i))
                  IN  IF st.raised THEN HandleTaskError(i, NoMethodText, 1, 1, store)
                      ELSE TaskOutcome(FALSE, 1, 1, st.store)
             ELSE HandleTaskError(i, ErrorText(outcome), 1,
                                  IF outcome = "analyze_raises" THEN 1 ELSE 0, store)

\* process_task(message), the pipeline doing `outcome`:
\*   message.get on a non-dict raises AttributeError before the try block;
\*   a message without problem_id or problem is logged and dropped;
\*   an exception inside the try block, of the pipeline or of the storage
\*   call of line 106, goes to the except block
process_task(message, outcome, store) ==
    IF message.shape # "dict" THEN TaskOutcome(TRUE, 0, 0, store)
    ELSE IF message.problem_id = <<>> \/ message.problem = <<>>
    THEN TaskOutcome(FALSE, 0, 0, store)
    ELSE LET i == message.problem_id[1]
         IN  IF outcome = "ok"
             THEN LET st == StoreCall(store, i, ResultRecord(i))
                  IN  IF st.raised THEN HandleTaskError(i, NoMethodText, 1, 1, store)
                      ELSE TaskOutcome(FALSE, 1, 1, st.store)
             ELSE HandleTaskError(i, ErrorText(outcome), 1,
                                  IF outcome = "analyze_raises" THEN 1 ELSE 0, store)

\* store_error_result(message.get('problem_id'), str(e)): an exception of the
\* storage call is caught and logged (lines 164-167)
store_error_result(store, message, text) ==
    IF message.problem_id = <<>> THEN store
    ELSE StoreCall(store, message.problem_id[1],
                   FailedRecord(message.problem_id[1], text)).store

\* a direct call of process_task
ProcessTask ==
    /\ w_call = "process_task" /\ w_pc = "running"
    /\ LET r == process_task(w_message, w_plan[1], Store)
       IN  /\ w_pc' = IF r.raised THEN "raised" ELSE "returned"
           /\ collect_calls' = collect_calls + r.collected
           /\ analyze_calls' = analyze_calls + r.analyzed
           /\ store_calls' = r.store.calls
           /\ results' = r.store.results
    /\ UNCHANGED <<w_call, w_message, w_plan, attempt, avars, uvars, qvars, hvars, cvars, lvars, gvars>>

\* one iteration of the while loop of process_task_with_retry (lines
\* 132-151); when the loop ends the method returns
ProcessTaskWithRetry ==
    /\ w_call = "process_task_with_retry" /\ w_pc = "running"
    /\ attempt < max_retries
    /\ LET r == process_task(w_message, w_plan[attempt + 1], Store)
           failures == attempt + 1
       IN  /\ collect_calls' = collect_calls + r.collected
           /\ analyze_calls' = analyze_calls + r.analyzed
           /\ IF ~r.raised
              THEN /\ w_pc' = "returned"
                   /\ attempt' = attempt
                   /\ store_calls' = r.store.calls
                   /\ results' = r.store.results
              ELSE /\ attempt' = failures
                   /\ IF w_message.shape # "dict"
                      \* message.get('problem_id') in the log line raises in the handler
                      THEN /\ w_pc' = "raised"
                           /\ store_calls' = r.store.calls
                           /\ results' = r.store.results
                      ELSE IF failures < max_retries
                      THEN /\ w_pc' = "running"
                           /\ store_calls' = r.store.calls
                           /\ results' = r.store.results
                      ELSE LET st == store_error_result(r.store, w_message, NoMethodText)
                           IN  /\ w_pc' = "returned"
                               /\ store_calls' = st.calls
                               /\ results' = st.results
    /\ UNCHANGED <<w_call, w_message, w_plan, avars, uvars, qvars, hvars, cvars, lvars, gvars>>

AnalyzerIdle ==
    /\ posts = <<>>
    /\ report = NoReport
    /\ classifier_calls = 0
    /\ kept = <<>>
    /\ call_log = <<>>

\* One call of process_task or process_task_with_retry on any message, with
\* any behaviour of the pipeline on its successive runs
InitWorker ==
    /\ AnalyzerIdle
    /\ StorageEmpty
    /\ ApiIdle
    /\ LimiterIdle
    /\ CollectionEmpty
    /\ NoDeleteNorPublish
    /\ ConsumerIdle
    /\ NoAuthCall
    /\ w_call \in {"process_task", "process_task_with_retry"}
    /\ w_message \in Messages
    /\ w_plan \in Plans
    /\ w_pc = "running"
    /\ attempt = 0
    /\ collect_calls = 0
    /\ analyze_calls = 0

NextWorker == ProcessTask \/ ProcessTaskWithRetry

SpecWorker == InitWorker /\ [][NextWorker]_vars

-----------------------------------------------------------------------------
(* Claims about the TaskWorker, checked under SpecWorker *)

WorkerDone == w_pc \in {"returned", "raised"}

TaskId == w_message.problem_id[1]

\* C5: if the pipeline raises (in collection, as in the worker's test) on
\* the first k < max_retries attempts and succeeds on attempt k+1, then
\* process_task_with_retry runs the collection k+1 times and the analysis
\* once, and stores exactly one record, the successful result.
C5_RetryUntilSuccess ==
    \A k \in 0..(max_retries - 1) :
        ( /\ w_call = "process_task_with_retry" /\ WorkerDone
          /\ WellFormed(w_message)
          /\ \A j \in 1..k : w_plan[j] = "collect_raises"
          /\ w_plan[k + 1] = "ok" )
        => /\ w_pc = "returned"
           /\ collect_calls = k + 1
           /\ analyze_calls = 1
           /\ store_calls = <<ResultRecord(TaskId)>>

\* C6: if the pipeline raises on every attempt, process_task_with_retry
\* attempts it exactly max_retries times, then stores exactly one record,
\* with status failed and an error message, and returns.
C6_RetryBudgetThenFailed ==
    ( /\ w_call = "process_task_with_retry" /\ WorkerDone
      /\ WellFormed(w_message)
      /\ \A j \in 1..max_retries : w_plan[j] # "ok" )
    => /\ w_pc = "returned"
       /\ collect_calls = max_retries
       /\ Len(store_calls) = 1
       /\ store_calls[1].status = "failed"
       /\ store_calls[1].error # ""

\* C8: when collection or analysis raises inside process_task for a message
\* with a problem_id and a problem, process_task returns without raising and
\* has stored exactly one record for that id: status failed, with the text
\* of the error.
C8_TaskFailureStored ==
    ( /\ w_call = "process_task" /\ WorkerDone
      /\ WellFormed(w_message)
      /\ w_plan[1] # "ok" )
    => /\ w_pc = "returned"
       /\ store_calls = <<FailedRecord(TaskId, ErrorText(w_plan[1]))>>
       /\ DOMAIN results = {TaskId}
       /\ results[TaskId] = FailedRecord(TaskId, ErrorText(w_plan[1]))

\* C9: for a message without problem_id or without problem, process_task
\* collects nothing, analyses nothing, stores nothing and returns normally.
C9_MalformedTaskDropped ==
    ( /\ w_call = "process_task" /\ WorkerDone
      /\ w_message.shape = "dict"
      /\ ~WellFormed(w_message) )
    => /\ w_pc = "returned"
       /\ collect_calls = 0
       /\ analyze_calls = 0
       /\ store_calls = <<>>
       /\ DOMAIN results = {}

\* C9 witness: process_task has ended on a message that has a problem but no
\* problem_id.
C9_Witness ==
    /\ w_call = "process_task" /\ WorkerDone
    /\ w_message.shape = "dict"
    /\ w_message.problem_id = <<>> /\ w_message.problem # <<>>

-----
(* API gateway: validate_problem, process_validation_task and               *)
(* get_validation_status over active_validations, with the TaskWorker       *)
(* consuming the same validation_tasks queue                                *)

\* ValidationRequest(request_id, status, ...) as kept in active_validations
ValidationRequest(status, error) == [status |-> status, error |-> error]

\* ValidationResult: the fields declared with Field(...), which pydantic
\* requires, and the keyword arguments process_validation_task passes
RequiredFields ==
    {"problem_id", "status", "engagement_metrics", "key_insights", "created_at"}
PassedFields ==
    {"problem_id", "timestamp", "sentiment_summary", "engagement_metrics",
     "temporal_analysis", "validation_score", "relevant_posts"}
ValidationResultRaises(fields) == ~(RequiredFields \subseteq fields)

ValidationErrorText == "validation error for ValidationResult"

\* get_validation_result(problem_id): the stored record or None
get_validation_result(store, problem_id) ==
    IF problem_id \in DOMAIN store.results THEN Some(store.results[problem_id]) ELSE <<>>

\* the keys of a record the TaskWorker stores
RecordFields(record) ==
    IF record.status = "failed"
    THEN {"problem_id", "timestamp", "status", "error"}
    ELSE {"problem_id", "timestamp", "sentiment_summary", "engagement_metrics",
          "temporal_analysis", "validation_score", "confidence_score",
          "validation_flags", "relevant_posts"}

SetStatus(requests, i, status, error) ==
    IF i \in DOMAIN requests
    THEN [requests EXCEPT ![i] = ValidationRequest(status, error)]
    ELSE requests

\* validate_problem up to the return of message_queue.publish (lines
\* 379-398): the request is registered as pending and the task is handed to
\* the broker; publish returns False when the broker refuses it
ValidateProblem_Publish(success) ==
    /\ vp.pc = "idle"
    /\ next_id < MaxRequests
    /\ LET problem_id == next_id + 1
       IN  /\ next_id' = problem_id
           /\ active_validations' =
                [i \in DOMAIN active_validations \cup {problem_id} |->
                    IF i = problem_id THEN ValidationRequest("pending", "")
                    ELSE active_validations[i]]
           /\ queue' = IF success THEN queue \cup {problem_id} ELSE queue
           /\ published' = IF success THEN published \cup {problem_id} ELSE published
           /\ vp' = [pc |-> "published", id |-> problem_id, flag |-> success]
    /\ UNCHANGED <<pvt, failed_ids, deliveries, responses, del_response,
                   avars, uvars, qvars, cvars, lvars, wvars, svars>>

\* a variant that keeps the request when queueing failed
ValidateProblem_Return_KeepsEntry ==
    /\ vp.pc = "published"
    /\ active_validations' =
         IF ~vp.flag
         THEN active_validations
         ELSE SetStatus(active_validations, vp.id, "processing",
                        IF vp.id \in DOMAIN active_validations
                        THEN active_validations[vp.id].error ELSE "")
    /\ vp' = NoCall
    /\ UNCHANGED <<next_id, queue, pvt, failed_ids, deliveries, responses,
                   avars, uvars, qvars, hvars, cvars, lvars, wvars, svars>>

\* validate_problem after publish (lines 400-407): the request is deleted
\* when queueing failed, else its status is set to processing
ValidateProblem_Return ==
    /\ vp.pc = "published"
    /\ active_validations' =
         IF ~vp.flag
         THEN [i \in DOMAIN active_validations \ {vp.id} |-> active_validations[i]]
         ELSE SetStatus(active_validations, vp.id, "processing",
                        IF vp.id \in DOMAIN active_validations
                        THEN active_validations[vp.id].error ELSE "")
    /\ vp' = NoCall
    /\ UNCHANGED <<next_id, queue, pvt, failed_ids, deliveries, responses,
                   avars, uvars, qvars, hvars, cvars, lvars, wvars, svars>>

\* the message of request i is with neither consumer
Deliverable(i) ==
    /\ i \in queue
    /\ deliveries < MaxDeliveries
    /\ ~(pvt.pc = "processing" /\ pvt.id = i)
    /\ ~(w_pc # "idle" /\ w_message = TaskMessage(i))

\* the callback registered with basic_consume (lines 199-202) hands the raw
\* body to process_validation_task: body.get raises AttributeError, and the
\* handler raises in turn on the unassigned validation_request
ProcessValidationTask_RawBody(i) ==
    /\ pvt.pc = "idle"
    /\ Deliverable(i)
    /\ deliveries' = deliveries + 1
    /\ UNCHANGED <<active_validations, next_id, queue, vp, pvt, failed_ids,
                   responses, avars, uvars, qvars, hvars, cvars, lvars, wvars, svars>>

\* process_validation_task(message) on the task of request i, up to the
\* status update of lines 156-158
ProcessValidationTask_Begin(i) ==
    /\ pvt.pc = "idle"
    /\ Deliverable(i)
    /\ deliveries' = deliveries + 1
    /\ LET found == i \in DOMAIN active_validations
       IN  /\ active_validations' =
                SetStatus(active_validations, i, "processing",
                          IF found THEN active_validations[i].error ELSE "")
           /\ pvt' = [pc |-> "processing", id |-> i, flag |-> found]
    /\ UNCHANGED <<next_id, queue, vp, failed_ids, responses, avars, uvars, qvars, hvars, cvars, lvars, wvars, svars>>

\* str(e) of the exception process_validation_task raises when collection
\* and analysis do `outcome` (lines 160-183), "" when it raises none
process_validation_task_error(outcome) ==
    IF outcome # "ok" THEN ErrorText(outcome)
    ELSE IF ValidationResultRaises(PassedFields) THEN ValidationErrorText
    ELSE IF ~HasMethod("store_validation_result") THEN NoMethodText
    ELSE ""

\* the status it leaves (lines 186-195)
process_validation_task_status(outcome) ==
    IF process_validation_task_error(outcome) = "" THEN "completed" ELSE "failed"

\* the rest of process_validation_task (lines 160-196); the message is not
\* acknowledged and stays with the broker
ProcessValidationTask_End(outcome) ==
    /\ pvt.pc = "processing"
    /\ LET st == process_validation_task_status(outcome)
           err == process_validation_task_error(outcome)
       IN  /\ active_validations' =
                IF pvt.flag THEN SetStatus(active_validations, pvt.id, st, err)
                ELSE active_validations
           /\ failed_ids' = IF st = "failed" THEN failed_ids \cup {pvt.id} ELSE failed_ids
           /\ IF st = "completed"
              THEN LET s2 == store_validation_result(Store, pvt.id, ResultRecord(pvt.id))
                   IN  store_calls' = s2.calls /\ results' = s2.results
              ELSE UNCHANGED svars
    /\ pvt' = NoCall
    /\ UNCHANGED <<next_id, queue, vp, deliveries, responses, avars, uvars, qvars, hvars, cvars, lvars, wvars>>

\* message_handler of MessageQueue.consume (lines 119-122): the broker
\* delivers the task of request i to the TaskWorker, whose callback is
\* process_task_with_retry
MessageHandler_Deliver(i) ==
    /\ w_pc = "idle"
    /\ Deliverable(i)
    /\ deliveries' = deliveries + 1
    /\ w_call' = "process_task_with_retry"
    /\ w_message' = TaskMessage(i)
    /\ w_plan' \in Plans
    /\ w_pc' = "running"
    /\ attempt' = 0
    /\ collect_calls' = 0
    /\ analyze_calls' = 0
    /\ UNCHANGED <<active_validations, next_id, queue, vp, pvt, failed_ids,
                   responses, avars, uvars, qvars, hvars, cvars, lvars, svars>>

\* the call of process_task_with_retry that returned left no result: it
\* used up its attempts, or process_task stored a failed record
TaskFailed == attempt = max_retries \/ w_plan[attempt + 1] # "ok"

\* message_handler after the callback returned (line 123): basic_ack
MessageHandler_Ack ==
    /\ deliveries > 0
    /\ w_call = "process_task_with_retry" /\ w_pc = "returned"
    /\ queue' = queue \ {TaskId}
    /\ failed_ids' = IF TaskFailed THEN failed_ids \cup {TaskId} ELSE failed_ids
    /\ w_call' = "none"
    /\ w_message' = OtherMessage
    /\ w_plan' = <<>>
    /\ w_pc' = "idle"
    /\ attempt' = 0
    /\ collect_calls' = 0
    /\ analyze_calls' = 0
    /\ UNCHANGED <<active_validations, next_id, vp, pvt, deliveries,
                   responses, avars, uvars, qvars, hvars, cvars, lvars, svars>>

\* the processing of request i has ended in failure and no result is stored
EndedInFailure(i) ==
    /\ i \in failed_ids
    /\ ~(i \in DOMAIN results /\ results[i].status # "failed")

\* request i was accepted and nothing is left to run for it: its message is
\* acknowledged and no call is working on it
Settled(i) ==
    /\ i <= next_id
    /\ i \notin queue
    /\ ~(vp.pc = "published" /\ vp.id = i)
    /\ ~(pvt.pc = "processing" /\ pvt.id = i)
    /\ ~(w_pc # "idle" /\ w_message = TaskMessage(i))

\* get_validation_status(problem_id): the response the client gets
get_validation_status(requests, store, problem_id) ==
    IF problem_id \in DOMAIN requests
    THEN [kind |-> "request", status |-> requests[problem_id].status,
          error |-> requests[problem_id].error]
    ELSE IF ~HasMethod("get_validation_result")
    THEN [kind |-> "error", status |-> "", error |-> NoMethodText]
    ELSE IF get_validation_result(store, problem_id) # <<>>
    THEN (IF ValidationResultRaises(RecordFields(get_validation_result(store, problem_id)[1]))
          THEN [kind |-> "error", status |-> "", error |-> ValidationErrorText]
          ELSE [kind |-> "request", status |-> "completed", error |-> ""])
    ELSE [kind |-> "not_found", status |-> "", error |-> ""]

GetValidationStatus(i) ==
    /\ LET r == get_validation_status(active_validations, Store, i)
       IN  responses' = [responses EXCEPT ![i] =
                [kind |-> r.kind, status |-> r.status, error |-> r.error,
                 settled_failure |-> Settled(i) /\ EndedInFailure(i)]]
    /\ responses'[i] # responses[i]
    /\ UNCHANGED <<active_validations, next_id, queue, vp, pvt, failed_ids,
                   deliveries, avars, uvars, qvars, hvars, cvars, lvars, wvars, svars>>

InitApi ==
    /\ AnalyzerIdle
    /\ WorkerIdle
    /\ StorageEmpty
    /\ ApiIdle
    /\ LimiterIdle
    /\ CollectionEmpty
    /\ NoDeleteNorPublish
    /\ ConsumerIdle
    /\ NoAuthCall

NextApi ==
    \/ \E success \in BOOLEAN : ValidateProblem_Publish(success)
    \/ ValidateProblem_Return
    \/ \E i \in Ids : ProcessValidationTask_RawBody(i)
    \/ \E i \in Ids : ProcessValidationTask_Begin(i)
    \/ \E outcome \in Outcomes : ProcessValidationTask_End(outcome)
    \/ \E i \in Ids : MessageHandler_Deliver(i)
    \/ ProcessTaskWithRetry
    \/ MessageHandler_Ack
    \/ \E i \in Ids : GetValidationStatus(i)

SpecApi == InitApi /\ [][NextApi]_vars

-----------------------------------------------------------------------------
(* Claims about the request lifecycle, checked under SpecApi *)

LifecycleEdges ==
    {<<"pending", "processing">>, <<"processing", "completed">>,
     <<"processing", "failed">>}

\* C4: the status of a request held in active_validations changes only along
\* pending -> processing, processing -> completed, processing -> failed,
\* whatever the interleaving of validate_problem, process_validation_task
\* (redeliveries included) and status queries; completed and failed are final.
C4_StatusLifecycle ==
    [][\A i \in DOMAIN active_validations \cap DOMAIN active_validations' :
          \/ active_validations'[i].status = active_validations[i].status
          \/ <<active_validations[i].status, active_validations'[i].status>>
                \in LifecycleEdges]_vars

\* C7: a status query for an accepted request whose processing has ended in
\* failure, made when nothing is left to run for the request, answers with
\* the request in status failed and an error message.
C7_FailureReported ==
    \A i \in Ids :
        (responses[i].kind # "none" /\ responses[i].settled_failure)
        => /\ responses[i].kind = "request"
           /\ responses[i].status = "failed"
           /\ responses[i].error # ""

-----------------------------------------------------------------------------
(* RateLimiter.check_rate_limit over the Redis cache.  A call reads the     *)
(* count with one Redis command and writes with another, so calls of        *)
(* several requests, and the expiry of keys, interleave between the two.    *)

\* the methods class RedisCache defines
CacheMethods == {"set", "get", "delete", "clear"}
CacheHasMethod(name) == name \in CacheMethods

\* RedisCache.get: json.loads of the stored text, None for a missing key
cache_get(store, key) == IF store[key] = NoKey THEN <<>> ELSE Some(store[key][1].count)

\* what Redis does on SETEX key seconds 1 and on INCR key
RedisCommand(store, method, key, seconds) ==
    IF method = "setex"
    THEN [store EXCEPT ![key] = Some([count |-> 1, ttl |-> seconds])]
    ELSE IF store[key] = NoKey
    THEN [store EXCEPT ![key] = Some([count |-> 1, ttl |-> 0])]
    ELSE [store EXCEPT ![key] = Some([@[1] EXCEPT !.count = @ + 1])]

\* self.cache.<method>(...): AttributeError when RedisCache has no such method
CacheCall(store, method, key, seconds) ==
    IF CacheHasMethod(method)
    THEN [store |-> RedisCommand(store, method, key, seconds), outcome |-> "admitted"]
    ELSE [store |-> store, outcome |-> "AttributeError"]

\* a variant that rejects only above the limit
check_rate_limit_decide_AboveOnly(store, call) ==
    LET rate == _get_rate_limit(call.path)
        cache_key == _get_cache_key(call.path, call.user)
    IN  IF call.current_count > rate.limit
        THEN [store |-> store, outcome |-> "429"]
        ELSE IF call.current_count = 0
        THEN CacheCall(store, "setex", cache_key, rate.window)
        ELSE CacheCall(store, "incr", cache_key, rate.window)

\* lines 56-72: reject with 429 at or above the limit, else write the count
check_rate_limit_decide(store, call) ==
    LET rate == _get_rate_limit(call.path)
        cache_key == _get_cache_key(call.path, call.user)
    IN  IF call.current_count >= rate.limit
        THEN [store |-> store, outcome |-> "429"]
        ELSE IF call.current_count = 0
        THEN CacheCall(store, "setex", cache_key, rate.window)
        ELSE CacheCall(store, "incr", cache_key, rate.window)

\* what a key found in Redis may hold: a count just below, at or above the
\* limit of its endpoint, with some of its window left
StoredEntries(key) ==
    LET limit == _get_rate_limit(key[3]).limit
    IN  {NoKey,
         Some([count |-> limit - 1, ttl |-> 15 * 60]),
         Some([count |-> limit, ttl |-> 60]),
         Some([count |-> limit + 1, ttl |-> 60])}

InitLimiter ==
    /\ posts = <<>>
    /\ report = NoReport
    /\ classifier_calls = 0
    /\ kept = <<>>
    /\ call_log = <<>>
    /\ WorkerIdle
    /\ StorageEmpty
    /\ ApiIdle
    /\ rl_store \in [RateKeys -> UNION {StoredEntries(k) : k \in RateKeys}]
    /\ \A k \in RateKeys : rl_store[k] \in StoredEntries(k)
    /\ rl_calls = [c \in Slots |-> NoRateCall]
    /\ CollectionEmpty
    /\ NoDeleteNorPublish
    /\ ConsumerIdle
    /\ NoAuthCall

\* lines 49-54: look up the limit and the key, read the current count
CheckRateLimit_Get(c, user, path) ==
    /\ rl_calls[c].pc = "idle"
    /\ LET got == cache_get(rl_store, _get_cache_key(path, user))
           current_count == IF got = <<>> THEN 0 ELSE IF got[1] = 0 THEN 0 ELSE got[1]
       IN  rl_calls' = [rl_calls EXCEPT ![c] =
                          [pc |-> "read", user |-> user, path |-> path,
                           current_count |-> current_count, outcome |-> ""]]
    /\ UNCHANGED <<rl_store, avars, uvars, qvars, hvars, cvars, wvars, svars, gvars>>

\* lines 56-72
CheckRateLimit_Decide(c) ==
    /\ rl_calls[c].pc = "read"
    /\ LET r == check_rate_limit_decide(rl_store, rl_calls[c])
       IN  /\ rl_store' = r.store
           /\ rl_calls' = [rl_calls EXCEPT ![c].pc = "done", ![c].outcome = r.outcome]
    /\ UNCHANGED <<avars, uvars, qvars, hvars, cvars, wvars, svars, gvars>>

\* the dependency check_rate_limit of the API returns or raises to FastAPI
CheckRateLimit_Return(c) ==
    /\ rl_calls[c].pc = "done"
    /\ rl_calls' = [rl_calls EXCEPT ![c] = NoRateCall]
    /\ UNCHANGED <<rl_store, avars, uvars, qvars, hvars, cvars, wvars, svars, gvars>>

\* Redis drops a key whose time to live has run out
KeyExpires(key) ==
    /\ rl_store[key] # NoKey
    /\ rl_store[key][1].ttl > 0
    /\ rl_store' = [rl_store EXCEPT ![key] = NoKey]
    /\ UNCHANGED <<rl_calls, avars, uvars, qvars, hvars, cvars, wvars, svars, gvars>>

NextLimiter ==
    \/ \E c \in Slots, user \in Users, path \in Paths : CheckRateLimit_Get(c, user, path)
    \/ \E c \in Slots : CheckRateLimit_Decide(c)
    \/ \E c \in Slots : CheckRateLimit_Return(c)
    \/ \E key \in RateKeys : KeyExpires(key)

SpecLimiter == InitLimiter /\ [][NextLimiter]_vars

C21_AdmittedRequestCounts ==
    [][\A c \in Slots :
         (rl_calls[c].pc = "read" /\ rl_calls'[c].pc = "done"
          /\ rl_calls[c].current_count < _get_rate_limit(rl_calls[c].path).limit) =>
            LET key == _get_cache_key(rl_calls[c].path, rl_calls[c].user)
            IN  IF rl_calls[c].current_count = 0
                THEN rl_store'[key] = Some([count |-> 1, ttl |-> 900])
                ELSE rl_store[key] # NoKey =>
                        rl_store'[key] = Some([count |-> rl_store[key][1].count + 1,
                                               ttl |-> rl_store[key][1].ttl])]_vars

\* C22: the limit applied to a request is 5 per 15 minutes on the validate
\* endpoint and 30 per 15 minutes on the list endpoint (base path
\* "problems"): a call is rejected with 429 exactly when the count it read
\* has reached that limit.
C22_EndpointLimits ==
    \A c \in Slots :
        rl_calls[c].pc = "done" =>
            LET claimed == IF BaseEndpoint(rl_calls[c].path) = "validate" THEN 5 ELSE 30
            IN  /\ _get_rate_limit(rl_calls[c].path).window = 15 * 60
                /\ rl_calls[c].outcome = "429" <=> rl_calls[c].current_count >= claimed

\* the calls on a key that passed the limit check of lines 56-60 (they were
\* not answered with 429) and have not yet returned to FastAPI
AdmittedCalls(key) ==
    {c \in Slots : /\ rl_calls[c].pc = "done"
                   /\ rl_calls[c].outcome # "429"
                   /\ _get_cache_key(rl_calls[c].path, rl_calls[c].user) = key}

\* the smallest count any of them read: the requests admitted before them
LeastCountRead(calls) ==
    CHOOSE n \in {rl_calls[c].current_count : c \in calls} :
        \A c \in calls : n <= rl_calls[c].current_count

C27_KeysExpireAndReadmit ==
    /\ \A key \in RateKeys : rl_store[key] # NoKey => rl_store[key][1].ttl > 0
    /\ \A c \in Slots :
          (rl_calls[c].pc = "done" /\ rl_calls[c].current_count = 0)
            => rl_calls[c].outcome = "admitted"

-----------------------------------------------------------------------------
(* StorageService over the MongoDB collection collected_data *)

StoredData == {"d1", "d2"}

\* the positions of the documents of a problem, oldest first
DocsOf(docs, problem_id) == {k \in 1..Len(docs) : docs[k].problem_id = problem_id}

FirstDocOf(docs, problem_id) ==
    CHOOSE k \in DocsOf(docs, problem_id) : \A j \in DocsOf(docs, problem_id) : k <= j

\* collection.insert_one(document): every call adds a document
store_collected_data(docs, data, problem_id) ==
    Append(docs, [problem_id |-> problem_id, data |-> data])

\* collection.find_one({'problem_id': problem_id}): the first match, or None
get_problem_data(docs, problem_id) ==
    IF DocsOf(docs, problem_id) = {} THEN <<>>
    ELSE Some(docs[FirstDocOf(docs, problem_id)])

\* collection.delete_one({'problem_id': problem_id}): removes the first match;
\* the result is deleted_count > 0
delete_problem_data(docs, problem_id) ==
    IF DocsOf(docs, problem_id) = {} THEN [docs |-> docs, result |-> FALSE]
    ELSE LET first == FirstDocOf(docs, problem_id)
         IN  [docs |-> [k \in 1..(Len(docs) - 1) |->
                           IF k < first THEN docs[k] ELSE docs[k + 1]],
              result |-> TRUE]

InitStorage ==
    /\ posts = <<>>
    /\ report = NoReport
    /\ classifier_calls = 0
    /\ kept = <<>>
    /\ call_log = <<>>
    /\ WorkerIdle
    /\ StorageEmpty
    /\ ApiIdle
    /\ LimiterIdle
    /\ CollectionEmpty
    /\ NoDeleteNorPublish
    /\ ConsumerIdle
    /\ NoAuthCall

StoreCollectedData(data, problem_id) ==
    /\ Len(collected_data) < MaxDocs
    /\ collected_data' = store_collected_data(collected_data, data, problem_id)
    /\ cd_last' = [op |-> "store_collected_data", problem_id |-> problem_id,
                   result |-> Some("inserted_id")]
    /\ cd_deleted' = cd_deleted \ {problem_id}
    /\ UNCHANGED <<avars, uvars, qvars, hvars, wvars, svars, gvars, lvars>>

GetProblemData(problem_id) ==
    /\ cd_last' = [op |-> "get_problem_data", problem_id |-> problem_id,
                   result |-> get_problem_data(collected_data, problem_id)]
    /\ cd_last' # cd_last
    /\ UNCHANGED <<collected_data, cd_deleted, avars, uvars, qvars, hvars, wvars, svars, gvars, lvars>>

DeleteProblemData(problem_id) ==
    /\ LET r == delete_problem_data(collected_data, problem_id)
       IN  /\ collected_data' = r.docs
           /\ cd_last' = [op |-> "delete_problem_data", problem_id |-> problem_id,
                          result |-> Some(r.result)]
           /\ cd_deleted' = IF r.result THEN cd_deleted \cup {problem_id} ELSE cd_deleted
    /\ cd_last' # cd_last \/ collected_data' # collected_data
    /\ UNCHANGED <<avars, uvars, qvars, hvars, wvars, svars, gvars, lvars>>

NextStorage ==
    \/ \E data \in StoredData, problem_id \in Ids : StoreCollectedData(data, problem_id)
    \/ \E problem_id \in Ids : GetProblemData(problem_id)
    \/ \E problem_id \in Ids : DeleteProblemData(problem_id)

SpecStorage == InitStorage /\ [][NextStorage]_vars

\* C23: once delete_problem_data(id) has returned True, and until data is
\* stored for id again, get_problem_data(id) returns None, however many
\* store_collected_data calls for id came before the delete.
C23_DeletedMeansGone ==
    /\ \A problem_id \in cd_deleted : get_problem_data(collected_data, problem_id) = <<>>
    /\ (cd_last.op = "get_problem_data" /\ cd_last.problem_id \in cd_deleted)
         => cd_last.result = <<>>

-----------------------------------------------------------------------------
(* The gateway's handlers over active_validations: validate_problem,        *)
(* process_validation_task, delete_problem and the two lookups              *)

\* get_validation_results(problem_id), lines 485-500: the result of a request
\* is set only when process_validation_task completes it (line 193)
get_validation_results(requests, store, problem_id) ==
    IF problem_id \in DOMAIN requests
    THEN (IF requests[problem_id].status = "completed"
          THEN [kind |-> "result", status |-> "", error |-> ""]
          ELSE [kind |-> "not_found", status |-> "", error |-> ""])
    ELSE IF ~HasMethod("get_validation_result")
    THEN [kind |-> "error", status |-> "", error |-> NoMethodText]
    ELSE IF get_validation_result(store, problem_id) # <<>>
    THEN (IF ValidationResultRaises(RecordFields(get_validation_result(store, problem_id)[1]))
          THEN [kind |-> "error", status |-> "", error |-> ValidationErrorText]
          ELSE [kind |-> "result", status |-> "", error |-> ""])
    ELSE [kind |-> "not_found", status |-> "", error |-> ""]

\* delete_problem(problem_id), lines 586-595: the storage call comes first,
\* and StorageService has no delete_validation_result, so the AttributeError
\* is turned into HTTP 500 before the request is removed
delete_problem(requests, store, problem_id) ==
    IF ~HasMethod("delete_validation_result")
    THEN [requests |-> requests, store |-> store, response |-> "500"]
    ELSE [requests |-> [i \in DOMAIN requests \ {problem_id} |-> requests[i]],
          store |-> [calls |-> store.calls,
                     results |-> [i \in DOMAIN store.results \ {problem_id} |->
                                    store.results[i]]],
          response |-> "200"]

DeleteProblem(i) ==
    /\ LET r == delete_problem(active_validations, Store, i)
       IN  /\ active_validations' = r.requests
           /\ store_calls' = r.store.calls
           /\ results' = r.store.results
           /\ del_response' = [del_response EXCEPT ![i] = r.response]
    /\ del_response'[i] # del_response[i]
    /\ UNCHANGED <<next_id, queue, vp, pvt, failed_ids, deliveries, responses,
                   published, avars, uvars, qvars, cvars, lvars, wvars>>

GetValidationResults(i) ==
    /\ LET r == get_validation_results(active_validations, Store, i)
       IN  responses' = [responses EXCEPT ![i] =
                [kind |-> r.kind, status |-> r.status, error |-> r.error,
                 settled_failure |-> FALSE]]
    /\ responses'[i] # responses[i]
    /\ UNCHANGED <<active_validations, next_id, queue, vp, pvt, failed_ids,
                   deliveries, avars, uvars, qvars, hvars, cvars, lvars, wvars, svars>>

NextGateway ==
    \/ \E success \in BOOLEAN : ValidateProblem_Publish(success)
    \/ ValidateProblem_Return
    \/ \E i \in Ids : ProcessValidationTask_Begin(i)
    \/ \E outcome \in Outcomes : ProcessValidationTask_End(outcome)
    \/ \E i \in Ids : DeleteProblem(i)
    \/ \E i \in Ids : GetValidationStatus(i)
    \/ \E i \in Ids : GetValidationResults(i)

SpecGateway == InitApi /\ [][NextGateway]_vars

\* validate_problem and the consumer of its tasks, with deletions
NextValidate ==
    \/ \E success \in BOOLEAN : ValidateProblem_Publish(success)
    \/ ValidateProblem_Return
    \/ \E i \in Ids : ProcessValidationTask_Begin(i)
    \/ \E outcome \in Outcomes : ProcessValidationTask_End(outcome)
    \/ \E i \in Ids : DeleteProblem(i)

SpecValidate == InitApi /\ [][NextValidate]_vars

C25_RegisteredMeansPublished ==
    [][/\ (vp.pc = "idle" /\ vp'.pc = "published") =>
             vp'.id \notin DOMAIN active_validations
       /\ (vp.pc = "published" /\ vp'.pc = "idle") =>
             IF vp.flag
             THEN /\ vp.id \in DOMAIN active_validations'
                  /\ active_validations'[vp.id].status = "processing"
                  /\ vp.id \in published'
             ELSE vp.id \notin DOMAIN active_validations'
       /\ \A i \in DOMAIN active_validations' :
             i \in published' \/ (vp'.pc = "published" /\ vp'.id = i)]_vars

\* C25 witness: validate_problem has returned for two requests, the first
\* published and registered with status processing, the second refused by
\* the broker and absent from active_validations.
C25_Witness ==
    /\ next_id = 2 /\ vp.pc = "idle"
    /\ published = {1}
    /\ DOMAIN active_validations = {1}
    /\ active_validations[1].status = "processing"

-----------------------------------------------------------------------------
(* MessageQueue.consume with the TaskWorker's callback: the broker delivers *)
(* the messages of validation_tasks one at a time (prefetch_count 1) to      *)
(* message_handler, which decodes the body, runs process_task_with_retry    *)
(* and answers the delivery                                                 *)

MsgIds == 1..MaxMessages

\* a body json.loads rejects
Undecodable == [decodes |-> FALSE, value |-> OtherMessage]
Decodable(message) == [decodes |-> TRUE, value |-> message]

\* the bodies a producer may leave in the queue: the task validate_problem
\* publishes, a dict without problem_id, a JSON value that is no dict, and
\* bytes that are no JSON
Bodies ==
    {Decodable(TaskMessage(1)),
     Decodable([shape |-> "dict", problem_id |-> <<>>, problem |-> Some("problem")]),
     Decodable(OtherMessage),
     Undecodable}

\* a variant that acknowledges whatever happened
message_handler_reply_AckAlways(decoded, callback_raised) == "ack"

\* lines 120-126: basic_ack at the end of the try block, basic_nack in the
\* except block
message_handler_reply(decoded, callback_raised) ==
    IF decoded /\ ~callback_raised THEN "ack" ELSE "nack"

\* what the broker does with a delivery on the reply: basic_nack is called
\* without requeue=False, and requeue defaults to True
BrokerOn(reply) == IF reply = "ack" THEN "acked" ELSE "ready"

InitConsume ==
    /\ AnalyzerIdle
    /\ WorkerIdle
    /\ StorageEmpty
    /\ ApiIdle
    /\ LimiterIdle
    /\ CollectionEmpty
    /\ NoDeleteNorPublish
    /\ NoAuthCall
    /\ mq \in [MsgIds -> [body : Bodies, state : {"ready"}]]
    /\ mh = [pc |-> "idle", msg |-> 0]
    /\ mh_sent = <<>>

\* the broker hands message m to message_handler; with prefetch_count 1 it
\* does so only when no delivery is unanswered
Consume_Deliver(m) ==
    /\ mh.pc = "idle"
    /\ mq[m].state = "ready"
    /\ \A k \in MsgIds : mq[k].state # "unacked"
    /\ mq' = [mq EXCEPT ![m].state = "unacked"]
    /\ mh' = [pc |-> "received", msg |-> m]
    /\ mh_sent' = <<>>
    /\ UNCHANGED <<avars, uvars, wvars, svars, gvars, lvars, cvars, hvars>>

\* line 121, message = json.loads(body), and the call of the callback at
\* line 122
MessageHandler_Loads ==
    /\ mh.pc = "received"
    /\ IF mq[mh.msg].body.decodes
       THEN /\ mh' = [mh EXCEPT !.pc = "callback"]
            /\ w_call' = "process_task_with_retry"
            /\ w_message' = mq[mh.msg].body.value
            /\ w_plan' \in Plans
            /\ w_pc' = "running"
            /\ attempt' = 0
            /\ collect_calls' = 0
            /\ analyze_calls' = 0
       ELSE /\ mh' = [mh EXCEPT !.pc = "except"]
            /\ UNCHANGED wvars
    /\ UNCHANGED <<mq, mh_sent, avars, uvars, svars, gvars, lvars, cvars, hvars>>

\* the callback raised: control goes to the except block of line 124
MessageHandler_CallbackRaised ==
    /\ mh.pc = "callback" /\ w_pc = "raised"
    /\ mh' = [mh EXCEPT !.pc = "except"]
    /\ UNCHANGED <<mq, mh_sent, avars, uvars, wvars, svars, gvars, lvars, cvars, hvars>>

\* line 123, basic_ack after the callback returned, or line 126, basic_nack
\* in the except block; message_handler returns
MessageHandler_Reply ==
    /\ \/ mh.pc = "callback" /\ w_pc = "returned"
       \/ mh.pc = "except"
    /\ LET reply == message_handler_reply(mq[mh.msg].body.decodes, mh.pc = "except")
       IN  /\ mh_sent' = Append(mh_sent, reply)
           /\ mq' = [mq EXCEPT ![mh.msg].state = BrokerOn(reply)]
    /\ mh' = [mh EXCEPT !.pc = "idle"]
    /\ w_call' = "none"
    /\ w_message' = OtherMessage
    /\ w_plan' = <<>>
    /\ w_pc' = "idle"
    /\ attempt' = 0
    /\ collect_calls' = 0
    /\ analyze_calls' = 0
    /\ UNCHANGED <<avars, uvars, svars, gvars, lvars, cvars, hvars>>

NextConsume ==
    \/ \E m \in MsgIds : Consume_Deliver(m)
    \/ MessageHandler_Loads
    \/ ProcessTaskWithRetry
    \/ MessageHandler_CallbackRaised
    \/ MessageHandler_Reply

SpecConsume == InitConsume /\ [][NextConsume]_vars

\* The worker keeps consuming: message_handler and the callback run on, and
\* the broker goes on delivering each message that is ready
SpecConsumeFair ==
    /\ SpecConsume
    /\ WF_vars(MessageHandler_Loads)
    /\ WF_vars(ProcessTaskWithRetry)
    /\ WF_vars(MessageHandler_CallbackRaised)
    /\ WF_vars(MessageHandler_Reply)
    /\ \A m \in MsgIds : SF_vars(Consume_Deliver(m))

C29_EveryMessageAcked ==
    \A m \in MsgIds : <>(mq[m].state = "acked")

-----------------------------------------------------------------------------
(* Authentication of a request: get_current_user over decode_token          *)

\* the users of fake_users_db
fake_users_db == {"johndoe"}

\* A bearer token: whether it is a JWT with a valid signature, whether its
\* exp has passed, and its sub claim (absent, a known or an unknown user)
Tokens == [wellformed : BOOLEAN, expired : BOOLEAN,
           sub : {<<>>, Some("johndoe"), Some("ghost")}]

\* jose.jwt.decode: JWTError for a malformed token or a bad signature,
\* ExpiredSignatureError (a JWTError) for a passed exp, else the payload
jwt_decode(token) ==
    IF ~token.wellformed \/ token.expired
    THEN [raised |-> "JWTError", sub |-> <<>>]
    ELSE [raised |-> "", sub |-> token.sub]

\* decode_token, lines 57-70: every failure leaves it as ValueError
decode_token(token) ==
    LET payload == jwt_decode(token)
    IN  IF payload.raised # "" THEN [raised |-> "ValueError", username |-> <<>>]
        ELSE IF payload.sub = <<>> THEN [raised |-> "ValueError", username |-> <<>>]
        ELSE [raised |-> "", username |-> payload.sub]

\* get_user(fake_users_db, username)
get_user(username) == IF username \in fake_users_db THEN Some(username) ELSE <<>>

\* get_current_user, lines 49-67: the except clause catches JWTError only,
\* any other exception of decode_token leaves the dependency
get_current_user(token) ==
    LET token_data == decode_token(token)
    IN  IF token_data.raised = "JWTError" THEN [outcome |-> "401", user |-> <<>>]
        ELSE IF token_data.raised # "" THEN [outcome |-> token_data.raised, user |-> <<>>]
        ELSE IF token_data.username = <<>> THEN [outcome |-> "401", user |-> <<>>]
        ELSE IF get_user(token_data.username[1]) = <<>> THEN [outcome |-> "401", user |-> <<>>]
        ELSE [outcome |-> "user", user |-> get_user(token_data.username[1])]

InitAuth ==
    /\ AnalyzerIdle
    /\ WorkerIdle
    /\ StorageEmpty
    /\ ApiIdle
    /\ LimiterIdle
    /\ CollectionEmpty
    /\ NoDeleteNorPublish
    /\ ConsumerIdle
    /\ auth_log = <<>>

\* a request arrives with a bearer token
GetCurrentUser(token) ==
    /\ Len(auth_log) < MaxAuthCalls
    /\ auth_log' = Append(auth_log, [token |-> token, result |-> get_current_user(token)])
    /\ UNCHANGED <<avars, wvars, svars, gvars, lvars, cvars, hvars, qvars>>

NextAuth == \E token \in Tokens : GetCurrentUser(token)

SpecAuth == InitAuth /\ [][NextAuth]_vars

\* C30: a token that is malformed, expired, without a subject or naming a
\* user that is not in the database is answered with the 401 credentials
\* error: it yields no user and no other error.
C30_BadTokenIs401 ==
    \A k \in 1..Len(auth_log) :
        LET token == auth_log[k].token
        IN  ( \/ ~token.wellformed
              \/ token.expired
              \/ token.sub = <<>>
              \/ token.sub[1] \notin fake_users_db )
            => /\ auth_log[k].result.outcome = "401"
               /\ auth_log[k].result.user = <<>>

====
